---- MODULE Spec2Model ----
(***************************************************************************)
(* The three acquisition scripts of the repository as one state machine:   *)
(*   acquire.py         plain loop, usbtmc session, no header stripping    *)
(*   acquire_pyvisa.py  plain loop, VISA session, IEEE 488.2 header strip  *)
(*   acquire_ag.py      QTimer callback update(), newline header strip     *)
(* The instrument session (usbtmc / pyvisa) and the Qt event loop are the  *)
(* environment: every session call either returns or raises, and read_raw  *)
(* returns a byte block drawn from Blocks(script).                         *)
(***************************************************************************)
EXTENDS Integers, Sequences, FiniteSets, TLC

VARIABLES
    script,          \* which of the three scripts runs
    pc,              \* position of the thread of control
    cfgStep,         \* index of the next configuration command
    scopeOpen,       \* a session object exists and close() has not been called
    closeCount,      \* number of scope.close() calls
    sent,            \* last command handed to the session ("" before any)
    wfmpre,          \* the instrument's waveform preamble (its settings)
    num_points,      \* int(scope.ask('WFMPRE:NR_PT?')), 0 until queried
    x_increment,     \* float(XINCR reply / preamble[4]), in hundredths
    x_origin,        \* float(XZERO reply / preamble[5]), in hundredths
    y_multiplier,    \* float(YMULT reply); y_increment in acquire_ag.py; in hundredths
    y_offset,        \* float(YOFF reply); y_origin in acquire_ag.py; in hundredths
    y_zero,          \* float(YZERO reply); y_reference in acquire_ag.py; in hundredths
    i,               \* the loop counter: the index the next iteration of `for i in
                     \* range(NUM_CAPTURES)` gets / the global i of acquire_ag.py
    timer,           \* QTimer active (acquire_ag.py)
    stack,           \* suspended update() frames (their pc), innermost last
    rawBlock,        \* bytes returned by the last read_raw()
    waveform_bytes,  \* the script's waveform_bytes variable
    raw_waveform,    \* the script's raw_waveform array (int8 codes)
    capture,         \* samples this iteration handed to the sinks
    voltages,        \* the voltages array, in ten-thousandths
    times,           \* the times array, in hundredths
    attempted,       \* iterations whose body was entered
    published,       \* captures handed to the sinks
    failures,        \* logging.error calls made by the loop's except clause
    firstFail,       \* 1-based iteration of the first failure, 0 if none
    firstError,      \* the exception of that failure, "none" if none
    lastError,       \* the exception `e` of the except clause being run, else "none"
    aborted,         \* the loop was left by its error path
    triggers,        \* trigger commands written
    ops,             \* session operations issued by the iteration under way, in order
    preambleQueries, \* preamble queries issued
    usedAfterClose,  \* a session operation was issued after scope.close()
    runWrites,       \* scope.write(':RUN') calls
    cancel           \* the environment has asked the run to stop

vars == <<script, pc, cfgStep, scopeOpen, closeCount, sent, wfmpre, num_points,
          x_increment, x_origin, y_multiplier, y_offset, y_zero, i, timer,
          stack, rawBlock, waveform_bytes, raw_waveform, capture, voltages, times, attempted,
          published, failures, firstFail, firstError, lastError, aborted, triggers,
          ops, preambleQueries, usedAfterClose, runWrites, cancel>>

(***************************************************************************)
(* Bounds of the model.                                                    *)
(***************************************************************************)
NumCaptures == 6      \* stands for NUM_CAPTURES of acquire_ag.py (300)
PlainCaptures == 2    \* stands for NUM_CAPTURES of acquire.py and acquire_pyvisa.py (100)
MaxPayload == 2       \* longest payload the instrument sends
MaxDigits == 2        \* largest digit count of a block header the instrument sends

(***************************************************************************)
(* Program constants.                                                      *)
(***************************************************************************)
PLOT_EVERY_N_FRAMES == 5
HashByte == 35        \* b'#'
NewlineByte == 10     \* b'\n'
AsciiZero == 48       \* '0'
AsciiNine == 57       \* '9'
Int8Top == 128        \* first byte value that np.int8 reads as negative
ByteRange == 256

Scripts == {"acquire", "acquire_pyvisa", "acquire_ag"}
PlainScripts == {"acquire", "acquire_pyvisa"}

\* Each script has its own NUM_CAPTURES.
NUM_CAPTURES(sc) == IF sc \in PlainScripts THEN PlainCaptures ELSE NumCaptures

(***************************************************************************)
(* Python and numpy semantics used by the scripts.                         *)
(***************************************************************************)
Min(a, b) == IF a < b THEN a ELSE b
Max(a, b) == IF a > b THEN a ELSE b

\* Python's index normalisation of a slice bound: negative bounds count from
\* the end, and every bound is clamped into 0..len.
PyBound(n, len) == IF n < 0 THEN Max(len + n, 0) ELSE Min(n, len)

\* s[lo:hi] with Python's slice semantics (0-based, hi exclusive).
PySlice(s, lo, hi) ==
    LET a == PyBound(lo, Len(s))
        b == PyBound(hi, Len(s))
    IN  IF a < b THEN SubSeq(s, a + 1, b) ELSE << >>

\* s[lo:] with Python's slice semantics.
PySliceFrom(s, lo) == PySlice(s, lo, Len(s))

\* bytes.find(b'\n'): 0-based index of the first occurrence, -1 if absent.
Find(s, byte) ==
    IF \E k \in 1..Len(s) : s[k] = byte
    THEN (CHOOSE k \in 1..Len(s) : s[k] = byte /\ \A j \in 1..(k - 1) : s[j] # byte) - 1
    ELSE -1

\* np.frombuffer(..., dtype=np.int8): every byte read as a signed 8-bit code.
Int8(b) == IF b >= Int8Top THEN b - ByteRange ELSE b
FromBuffer(s) == [k \in 1..Len(s) |-> Int8(s[k])]

\* int(chr(b)) succeeds exactly on the ASCII digits.
IsDigitByte(b) == b >= AsciiZero /\ b <= AsciiNine
DigitValue(b) == b - AsciiZero

\* needle in haystack, both sequences of characters (Python's str `in`).
Contains(haystack, needle) ==
    \E k \in 0..(Len(haystack) - Len(needle)) :
        SubSeq(haystack, k + 1, k + Len(needle)) = needle

(***************************************************************************)
(* Exceptions.  A session call raises one of SessionErrors; str(e) is the  *)
(* message the library gives it.  Decoding raises ValueError / IndexError. *)
(***************************************************************************)
SessionErrors == {"TransportError", "VisaTimeout", "UsbTimeout"}

\* str(e): the text of the exception.  The ValueError is the one int() raises
\* on the digit-count byte 'x' of the read b'#x'.
Message(e) ==
    CASE e = "TransportError" ->
            <<"[","E","r","r","n","o"," ","3","2","]"," ","P","i","p","e"," ","e","r","r",
              "o","r">>
      [] e = "VisaTimeout" ->
            <<"V","I","_","E","R","R","O","R","_","T","M","O"," ","(","-","1","0","7","3",
              "8","0","7","3","3","9",")",":"," ","T","i","m","e","o","u","t"," ","e","x",
              "p","i","r","e","d"," ","b","e","f","o","r","e"," ","o","p","e","r","a","t",
              "i","o","n"," ","c","o","m","p","l","e","t","e","d",".">>
      [] e = "UsbTimeout" ->
            <<"[","E","r","r","n","o"," ","1","1","0","]"," ","O","p","e","r","a","t","i",
              "o","n"," ","t","i","m","e","d"," ","o","u","t">>
      [] e = "ValueError" ->
            <<"i","n","v","a","l","i","d"," ","l","i","t","e","r","a","l"," ","f","o","r",
              " ","i","n","t","(",")"," ","w","i","t","h"," ","b","a","s","e"," ","1","0",
              ":"," ","'","x","'">>
      [] e = "IndexError" ->
            <<"i","n","d","e","x"," ","o","u","t"," ","o","f"," ","r","a","n","g","e">>

TimeoutText == <<"T","i","m","e","o","u","t">>

\* The loop's test `"Timeout" in str(e)`.
SaysTimeout(e) == Contains(Message(e), TimeoutText)

\* The exceptions that are timeouts by their type (the session's TimeoutError).
TimeoutErrors == {"VisaTimeout", "UsbTimeout"}

(***************************************************************************)
(* What the instrument puts on the wire.                                   *)
(***************************************************************************)
PayloadBytes == {NewlineByte, 200}

RECURSIVE SeqsUpTo(_, _)
\* all sequences over S of length 0..n
SeqsUpTo(S, n) ==
    IF n = 0 THEN {<< >>}
    ELSE LET shorter == SeqsUpTo(S, n - 1)
         IN  shorter \cup {Append(p, b) : p \in {q \in shorter : Len(q) = n - 1}, b \in S}

Payloads == SeqsUpTo(PayloadBytes, MaxPayload)

RECURSIVE Decimal(_, _)
\* n as d ASCII decimal digits, zero padded
Decimal(n, d) ==
    IF d = 0 THEN << >>
    ELSE Append(Decimal(n \div 10, d - 1), AsciiZero + (n % 10))

\* marker + digitCountChar + decimalLength: the IEEE 488.2 block header
TekHeader(len, d) == <<HashByte, AsciiZero + d>> \o Decimal(len, d)

\* header + payload + trailing bytes
TekFrame(p, d, trailer) == TekHeader(Len(p), d) \o p \o trailer

Trailers == {<< >>, <<NewlineByte>>, <<NewlineByte, NewlineByte>>}

TekBlocks == {TekFrame(p, d, t) : p \in Payloads, d \in 1..MaxDigits, t \in Trailers}

\* the text before the first newline of an Agilent :WAVEFORM:DATA? answer
AgHeaders == {<< >>, <<HashByte, AsciiZero + 1, AsciiZero + 2>>}

AgFrame(h, p) == h \o <<NewlineByte>> \o p

AgBlocks == {AgFrame(h, p) : h \in AgHeaders, p \in Payloads}

\* reads that are no complete frame: empty, marker only, a digit count that
\* is no digit, fewer length digits than announced, no newline at all
BadBlocks == {<< >>, <<HashByte>>, <<HashByte, 120>>, <<HashByte, AsciiZero + 2, AsciiZero + 1>>,
              <<200, 200, 200>>}

\* b'#14' + b'\x01\x02\x03\x04' + b'\n'
ScenarioFrame == <<HashByte, AsciiZero + 1, AsciiZero + 4, 1, 2, 3, 4, NewlineByte>>

\* the codes 10, -10, 0, 127 as one unframed read
ScenarioCodes == <<10, 246, 0, 127>>

\* what read_raw() may return after 'CURVE?' (acquire.py, acquire_pyvisa.py)
TekReplies == TekBlocks \cup BadBlocks \cup {ScenarioFrame, ScenarioCodes}

\* what read_raw() may return after ':WAVEFORM:DATA?' (acquire_ag.py)
AgReplies == AgBlocks \cup BadBlocks

Blocks(sc) == IF sc = "acquire_ag" THEN AgReplies ELSE TekReplies

\* answers to WFMPRE:NR_PT?
NumPointsReplies == {-1, 0, 1, 2}

\* A decimal reply is held as its count of hundredths: float('0.01') is 1,
\* float('-1.5') is -150.
Unit == 100

\* int(x) of a float: the fraction is cut off towards zero.
IntOfFloat(h) == IF h >= 0 THEN (h \div Unit) * Unit ELSE -(((-h) \div Unit) * Unit)

\* Waveform settings of the instrument: scale 0.01 with zero offsets, and a
\* setting whose every field is non-trivial (code zero -1.5).
Preambles ==
    { [xinc |-> 1, xorg |-> 0, yscale |-> 1, yoff |-> 0, yzero |-> 0],
      [xinc |-> 2, xorg |-> -50, yscale |-> 2, yoff |-> 200, yzero |-> -150] }

(***************************************************************************)
(* Setup: connect, configure, query the preamble.                          *)
(***************************************************************************)
Ask(c) == [op |-> "ask", cmd |-> c]
Write(c) == [op |-> "write", cmd |-> c]

\* The session calls of the configuration try block, in program order.
ConfigOps(sc) ==
    IF sc = "acquire_ag"
    THEN << Ask("*IDN?"), Write(":STOP"), Write(":WAVEFORM:SOURCE"),
            Write(":WAVEFORM:FORMAT BYTE"), Write(":WAVEFORM:UNSIGNED OFF"),
            Write(":ACQUIRE:POINTS"), Write(":ACQUIRE:TYPE NORMAL"),
            Ask(":WAVEFORM:PREAMBLE?") >>
    ELSE << Ask("*IDN?"), Write("DATA:SOURCE"), Write("DATA:ENCDG RIBinary"),
            Write("DATA:WIDTH 1"), Write("HEADER OFF"),
            Write("ACQUIRE:STOPAFTER SEQUENCE"),
            Ask("WFMPRE:NR_PT?"), Ask("WFMPRE:XINCR?"), Ask("WFMPRE:XZERO?"),
            Ask("WFMPRE:YMULT?"), Ask("WFMPRE:YOFF?"), Ask("WFMPRE:YZERO?") >>

\* A loop that asks for a preamble field where it should ask for the data.
DataCmdRefetch(sc) == IF sc = "acquire_ag" THEN ":WAVEFORM:PREAMBLE?" ELSE "WFMPRE:YMULT?"

TriggerCmd(sc) == IF sc = "acquire_ag" THEN ":DIGITIZE" ELSE "ACQUIRE:STATE ON"
DataCmd(sc) == IF sc = "acquire_ag" THEN ":WAVEFORM:DATA?" ELSE "CURVE?"
PollCmd == "*OPC?"
ReadOp == "read_raw"

Init ==
    /\ script \in Scripts
    /\ pc = "connect"
    /\ cfgStep = 1
    /\ scopeOpen = FALSE
    /\ closeCount = 0
    /\ sent = ""
    /\ wfmpre \in Preambles
    /\ num_points = 0
    /\ x_increment = 0
    /\ x_origin = 0
    /\ y_multiplier = 0
    /\ y_offset = 0
    /\ y_zero = 0
    /\ i = 0
    /\ timer = FALSE
    /\ stack = << >>
    /\ rawBlock = << >>
    /\ waveform_bytes = << >>
    /\ raw_waveform = << >>
    /\ capture = << >>
    /\ voltages = << >>
    /\ times = << >>
    /\ attempted = 0
    /\ published = 0
    /\ failures = 0
    /\ firstFail = 0
    /\ firstError = "none"
    /\ lastError = "none"
    /\ aborted = FALSE
    /\ triggers = 0
    /\ ops = << >>
    /\ preambleQueries = 0
    /\ usedAfterClose = FALSE
    /\ runWrites = 0
    /\ cancel = FALSE

dataVars == <<rawBlock, waveform_bytes, raw_waveform, capture, voltages, times>>
scaleVars == <<x_increment, x_origin, y_multiplier, y_offset, y_zero>>
countVars == <<attempted, published, failures, firstFail, firstError, lastError, aborted, triggers>>
sessionVars == <<sent, preambleQueries, usedAfterClose, runWrites>>

\* The queries that fetch the waveform preamble.
PreambleCmds == {"WFMPRE:NR_PT?", "WFMPRE:XINCR?", "WFMPRE:XZERO?", "WFMPRE:YMULT?",
                 "WFMPRE:YOFF?", "WFMPRE:YZERO?", ":WAVEFORM:PREAMBLE?"}

\* The command the script writes to restore free-running acquisition.
RunCmd == ":RUN"

\* Any call on the session object: it is made on a closed session when
\* close() has run before.
Use == usedAfterClose' = (usedAfterClose \/ closeCount > 0)

\* scope.write(c) / scope.ask(c) / scope.query(c) is called.
Issue(c) ==
    /\ sent' = c
    /\ Use
    /\ preambleQueries' = preambleQueries + (IF c \in PreambleCmds THEN 1 ELSE 0)
    /\ runWrites' = runWrites + (IF c = RunCmd THEN 1 ELSE 0)

\* usbtmc.Instrument(...) / rm.open_resource(...) returns a session.
Connect ==
    /\ pc = "connect"
    /\ pc' = "configure"
    /\ scopeOpen' = TRUE
    /\ UNCHANGED <<script, wfmpre, cancel, cfgStep, ops, closeCount, sessionVars,
                   num_points, scaleVars, i, timer, stack,
                   dataVars, countVars>>

\* The connect try block raises: the script logs and exits.  Either opening
\* the session raised and there is no session, or the session was opened and
\* a later statement of the block (scope.timeout = ..., the VISA settings)
\* raised: the except clause does not close it.
ConnectFail ==
    /\ pc = "connect"
    /\ pc' = "exited"
    /\ scopeOpen' \in BOOLEAN
    /\ UNCHANGED <<script, wfmpre, cancel, cfgStep, ops, closeCount,
                   sessionVars, num_points, scaleVars, i, timer,
                   stack, dataVars, countVars>>

\* Where control goes when the configuration try block has run through:
\* the for loop, or the Qt event loop with the timer started and i = 0.
AfterConfig(sc) == IF sc = "acquire_ag" THEN "event_loop" ELSE "loop_head"

\* y_zero = float(reply) in the plain scripts; acquire_ag.py keeps
\* y_reference = int(float(preamble[9])).
YZero(cmd, reply, old) ==
    CASE cmd = "WFMPRE:YZERO?" -> reply
      [] cmd = ":WAVEFORM:PREAMBLE?" -> IntOfFloat(reply)
      [] OTHER -> old

\* One configuration command or preamble query returns.
Configure ==
    /\ pc = "configure"
    /\ LET c == ConfigOps(script)[cfgStep]
           last == cfgStep = Len(ConfigOps(script))
       IN  /\ Issue(c.cmd)
           /\ IF c.cmd = "WFMPRE:NR_PT?"
              THEN num_points' \in NumPointsReplies
              ELSE num_points' = num_points
           /\ x_increment' = IF c.cmd \in {"WFMPRE:XINCR?", ":WAVEFORM:PREAMBLE?"}
                             THEN wfmpre.xinc ELSE x_increment
           /\ x_origin' = IF c.cmd \in {"WFMPRE:XZERO?", ":WAVEFORM:PREAMBLE?"}
                          THEN wfmpre.xorg ELSE x_origin
           /\ y_multiplier' = IF c.cmd \in {"WFMPRE:YMULT?", ":WAVEFORM:PREAMBLE?"}
                              THEN wfmpre.yscale ELSE y_multiplier
           /\ y_offset' = IF c.cmd \in {"WFMPRE:YOFF?", ":WAVEFORM:PREAMBLE?"}
                          THEN wfmpre.yoff ELSE y_offset
           /\ y_zero' = YZero(c.cmd, wfmpre.yzero, y_zero)
           /\ cfgStep' = cfgStep + 1
           /\ pc' = IF last THEN AfterConfig(script) ELSE "configure"
           /\ timer' = (last /\ script = "acquire_ag")
    /\ UNCHANGED <<script, wfmpre, cancel, ops, scopeOpen, closeCount, i, stack, dataVars,
                   countVars>>

\* The except clause of the setup try block: the plain scripts close the
\* session before exit(); acquire_ag.py only logs and exits.
SetupClosesSession(sc) == sc \in PlainScripts

\* One configuration command or preamble query raises.
ConfigureFail ==
    /\ pc = "configure"
    /\ \E e \in SessionErrors :
        /\ Issue(ConfigOps(script)[cfgStep].cmd)
        /\ lastError' = e
    /\ IF SetupClosesSession(script)
       THEN closeCount' = closeCount + 1 /\ scopeOpen' = FALSE
       ELSE UNCHANGED <<closeCount, scopeOpen>>
    /\ pc' = "exited"
    /\ UNCHANGED <<script, wfmpre, cancel, cfgStep, ops, num_points, scaleVars, i, timer,
                   stack, dataVars,
                   attempted, published, failures, firstFail, firstError, aborted, triggers>>

(***************************************************************************)
(* Frame decoding.                                                         *)
(***************************************************************************)
\* acquire_pyvisa.py: header_len = 2 + int(chr(waveform_bytes[1]))
HeaderLen(b) == 2 + DigitValue(b[2])

\* The header dropped and the last byte kept.
StripTekKeepsLast(b) == PySliceFrom(b, HeaderLen(b))

\* acquire_pyvisa.py: waveform_bytes[header_len:-1], header and last byte dropped
StripTek(b) == PySlice(b, HeaderLen(b), -1)

\* acquire_pyvisa.py: the `if waveform_bytes[0:1] == b'#'` block.  The index
\* raises IndexError on a one-byte read and int() raises ValueError on a
\* byte that is no digit; a read that does not start with '#' is kept whole.
TekDecode(b) ==
    IF PySlice(b, 0, 1) = <<HashByte>>
    THEN IF Len(b) < 2 THEN [err |-> "IndexError", bytes |-> b]
         ELSE IF ~IsDigitByte(b[2]) THEN [err |-> "ValueError", bytes |-> b]
         ELSE [err |-> "none", bytes |-> StripTek(b)]
    ELSE [err |-> "none", bytes |-> b]

\* The header taken to end at the newline itself.
HeaderEndIndexAtNewline(b) == Find(b, NewlineByte)

\* acquire_ag.py: header_end_index = waveform_bytes.find(b'\n') + 1
HeaderEndIndex(b) == Find(b, NewlineByte) + 1

\* acquire_ag.py: waveform_bytes[header_end_index:]
StripAg(b) == PySliceFrom(b, HeaderEndIndex(b))

\* The bytes each script hands to np.frombuffer, or the exception raised.
Decode(sc, b) ==
    CASE sc = "acquire" -> [err |-> "none", bytes |-> b]
      [] sc = "acquire_pyvisa" -> TekDecode(b)
      [] sc = "acquire_ag" -> [err |-> "none", bytes |-> StripAg(b)]

\* acquire_pyvisa.py: if len(raw_waveform) != num_points: raw_waveform[:num_points]
Truncate(codes, n) == IF Len(codes) # n THEN PySlice(codes, 0, n) ELSE codes

(***************************************************************************)
(* The acquisition loop.                                                   *)
(***************************************************************************)
\* Where update() returns to: the Qt event loop, or the frame it interrupted.
ReturnTo == IF stack = << >> THEN "event_loop" ELSE stack[Len(stack)]
Popped == IF stack = << >> THEN stack ELSE SubSeq(stack, 1, Len(stack) - 1)

\* An except clause that breaks on the exception's type.
BreaksLoopByType(e) == e \in TimeoutErrors

\* The plain loops' except clause: `if "Timeout" in str(e): ... break`,
\* otherwise `continue`.
BreaksLoop(e) == SaysTimeout(e)

\* An except clause that leaves the timer running.
TimerLeftRunning == TRUE

\* update()'s except clause: timer.stop().
TimerAfterError == FALSE

\* The except clause of the loop body, entered with exception e: the plain
\* loops log and break or continue; update() logs, stops the timer, closes
\* the session, and then runs i += 1 and returns.
Except(e) ==
    /\ failures' = failures + 1
    /\ firstFail' = IF firstFail = 0 THEN i + 1 ELSE firstFail
    /\ firstError' = IF firstFail = 0 THEN e ELSE firstError
    /\ lastError' = e
    /\ IF script \in PlainScripts
       THEN /\ IF BreaksLoop(e)
               THEN pc' = "cleanup" /\ aborted' = TRUE /\ i' = i
               ELSE pc' = "loop_head" /\ aborted' = aborted /\ i' = i + 1
            /\ UNCHANGED <<timer, closeCount, scopeOpen, stack>>
       ELSE /\ timer' = TimerAfterError
            /\ closeCount' = closeCount + 1
            /\ scopeOpen' = FALSE
            /\ aborted' = TRUE
            /\ i' = i + 1
            /\ pc' = ReturnTo
            /\ stack' = Popped

\* A body that ends without advancing the counter.
EndIterationStuck ==
    /\ i' = i
    /\ IF script \in PlainScripts
       THEN pc' = "loop_head" /\ stack' = stack
       ELSE pc' = ReturnTo /\ stack' = Popped

\* The end of a loop body that raised nothing: the for loop takes the next
\* index; update() does i += 1 and returns.
EndIteration ==
    /\ i' = i + 1
    /\ IF script \in PlainScripts
       THEN pc' = "loop_head" /\ stack' = stack
       ELSE pc' = ReturnTo /\ stack' = Popped

\* A loop body is entered (or the loop is found exhausted).  In the plain
\* scripts waveform_bytes, raw_waveform, voltages and times are module
\* globals and keep what the last capture left in them; in acquire_ag.py they
\* are locals of update(), unbound in a new call.  `e` is unbound outside its
\* except clause; rawBlock, capture and ops describe the iteration under way.
FreshBody ==
    /\ IF script \in PlainScripts
       THEN UNCHANGED <<waveform_bytes, raw_waveform, voltages, times>>
       ELSE /\ waveform_bytes' = << >>
            /\ raw_waveform' = << >>
            /\ voltages' = << >>
            /\ times' = << >>
    /\ rawBlock' = << >>
    /\ capture' = << >>
    /\ ops' = << >>
    /\ lastError' = "none"

\* for i in range(NUM_CAPTURES): the next iteration, or the end of the loop.
LoopHead ==
    /\ pc = "loop_head"
    /\ IF i < NUM_CAPTURES(script)
       THEN pc' = "trigger" /\ attempted' = attempted + 1
       ELSE pc' = "cleanup" /\ attempted' = attempted
    /\ FreshBody
    /\ UNCHANGED <<script, wfmpre, cancel, cfgStep, scopeOpen, closeCount, sessionVars,
                   num_points, scaleVars, i, timer,
                   stack, published, failures, firstFail, firstError, aborted, triggers>>

\* A nested processEvents() that activated the running timer again.
TimerCanFireReentrant == timer /\ pc \in {"event_loop", "process_events"}

\* Qt delivers the timer's timeout from the event loop.  A timer whose
\* timeout is being delivered is not activated again by a nested
\* processEvents(): Qt's event dispatchers mark a timer while its event is
\* being sent and skip it until the handler has returned.  So update() is
\* entered only from the idle event loop; the script has no guard of its own.
TimerCanFire == timer /\ pc = "event_loop"

\* timer.timeout.connect(update); timer.start(0)
TimerFire ==
    /\ script = "acquire_ag"
    /\ TimerCanFire
    /\ pc' = "update_top"
    /\ stack' = IF pc = "event_loop" THEN stack ELSE Append(stack, pc)
    /\ UNCHANGED <<script, wfmpre, cancel, cfgStep, ops, scopeOpen, closeCount,
                   sessionVars, num_points, scaleVars, i, timer,
                   dataVars, countVars>>

\* A completion test that is true one capture early.
AllCapturedEarly == i >= NumCaptures - 1

\* update(): if i >= NUM_CAPTURES
AllCaptured == i >= NumCaptures

\* update(): the `if i >= NUM_CAPTURES` test; the completion branch starts
\* with timer.stop().
UpdateTop ==
    /\ pc = "update_top"
    /\ IF AllCaptured
       THEN pc' = "complete" /\ timer' = FALSE /\ attempted' = attempted
       ELSE pc' = "trigger" /\ timer' = timer /\ attempted' = attempted + 1
    /\ FreshBody
    /\ UNCHANGED <<script, wfmpre, cancel, cfgStep, scopeOpen, closeCount, sessionVars,
                   num_points, scaleVars, i,
                   stack, published, failures, firstFail, firstError, aborted, triggers>>

\* update(), completion branch: scope.write(':RUN') returns, scope.close(), return.
Complete ==
    /\ pc = "complete"
    /\ Issue(RunCmd)
    /\ closeCount' = closeCount + 1
    /\ scopeOpen' = FALSE
    /\ pc' = ReturnTo
    /\ stack' = Popped
    /\ UNCHANGED <<script, wfmpre, cancel, cfgStep, ops, num_points, scaleVars, i, timer,
                   dataVars, countVars>>

\* update(), completion branch: scope.write(':RUN') raises.  The branch is
\* outside the try block, so the exception leaves update() and the lines
\* after the write are not run.
CompleteFail ==
    /\ pc = "complete"
    /\ \E e \in SessionErrors : lastError' = e
    /\ Issue(RunCmd)
    /\ pc' = "unhandled"
    /\ UNCHANGED <<script, wfmpre, cancel, cfgStep, ops, scopeOpen, closeCount, num_points,
                   scaleVars, i, timer, stack,
                   dataVars, attempted, published, failures, firstFail, firstError,
                   aborted, triggers>>

\* What a loop-body session call that raises leaves alone.
bodyKeeps == <<script, wfmpre, cancel, cfgStep, num_points, scaleVars, dataVars, attempted,
               published>>

\* A body that goes from the trigger straight to the data query.
AfterTriggerNoPoll(sc) == "data_query"

\* What follows the trigger: the plain scripts ask '*OPC?' and wait for the
\* answer; acquire_ag.py's :DIGITIZE blocks by itself and the data query follows.
AfterTrigger(sc) == IF sc = "acquire_ag" THEN "data_query" ELSE "opc"

\* The trigger command: scope.write('ACQUIRE:STATE ON') / scope.write(':DIGITIZE ...').
Trigger ==
    /\ pc = "trigger"
    /\ Issue(TriggerCmd(script))
    /\ ops' = Append(ops, TriggerCmd(script))
    /\ triggers' = triggers + 1
    /\ \/ /\ pc' = AfterTrigger(script)
          /\ UNCHANGED <<scopeOpen, closeCount, i, timer, stack, failures,
                         firstFail, firstError, lastError, aborted>>
       \/ \E e \in SessionErrors : Except(e)
    /\ UNCHANGED bodyKeeps

\* scope.ask('*OPC?') / scope.query('*OPC?'): blocks until the answer or raises.
AwaitComplete ==
    /\ pc = "opc"
    /\ Issue(PollCmd)
    /\ ops' = Append(ops, PollCmd)
    /\ \/ /\ pc' = "data_query"
          /\ UNCHANGED <<scopeOpen, closeCount, i, timer, stack, failures,
                         firstFail, firstError, lastError, aborted>>
       \/ \E e \in SessionErrors : Except(e)
    /\ UNCHANGED <<bodyKeeps, triggers>>

\* scope.write('CURVE?') / scope.write(':WAVEFORM:DATA?')
DataQuery ==
    /\ pc = "data_query"
    /\ Issue(DataCmd(script))
    /\ ops' = Append(ops, DataCmd(script))
    /\ \/ /\ pc' = "read"
          /\ UNCHANGED <<scopeOpen, closeCount, i, timer, stack, failures,
                         firstFail, firstError, lastError, aborted>>
       \/ \E e \in SessionErrors : Except(e)
    /\ UNCHANGED <<bodyKeeps, triggers>>

\* waveform_bytes = scope.read_raw() returns a block.
ReadRaw ==
    /\ pc = "read"
    /\ \E b \in Blocks(script) :
        /\ rawBlock' = b
        /\ waveform_bytes' = b
    /\ pc' = "decode"
    /\ Use
    /\ ops' = Append(ops, ReadOp)
    /\ UNCHANGED <<script, wfmpre, cancel, cfgStep, scopeOpen, closeCount, sent,
                   preambleQueries, runWrites, num_points, scaleVars, i, timer,
                   stack, raw_waveform, capture, voltages, times, countVars>>

\* scope.read_raw() raises.
ReadRawFail ==
    /\ pc = "read"
    /\ \E e \in SessionErrors : Except(e)
    /\ Use
    /\ ops' = Append(ops, ReadOp)
    /\ UNCHANGED <<bodyKeeps, sent, preambleQueries, runWrites, triggers>>

\* Header stripping and np.frombuffer.  Only acquire_pyvisa.py assigns the
\* stripped bytes back to waveform_bytes; only that script goes on to the
\* length reconciliation.
DecodeBlock ==
    /\ pc = "decode"
    /\ LET r == Decode(script, waveform_bytes)
       IN  IF r.err = "none"
           THEN /\ waveform_bytes' = IF script = "acquire_pyvisa" THEN r.bytes
                                     ELSE waveform_bytes
                /\ raw_waveform' = FromBuffer(r.bytes)
                /\ pc' = IF script = "acquire_pyvisa" THEN "reconcile" ELSE "publish"
                /\ UNCHANGED <<scopeOpen, closeCount, i, timer, stack, failures,
                               firstFail, firstError, lastError, aborted>>
           ELSE /\ Except(r.err)
                /\ UNCHANGED <<waveform_bytes, raw_waveform>>
    /\ UNCHANGED <<script, wfmpre, cancel, cfgStep, ops, sessionVars, num_points,
                   scaleVars, rawBlock, capture, voltages, times, attempted,
                   published, triggers>>

\* acquire_pyvisa.py: the length check against num_points.
Reconcile ==
    /\ pc = "reconcile"
    /\ raw_waveform' = Truncate(raw_waveform, num_points)
    /\ pc' = "publish"
    /\ UNCHANGED <<script, wfmpre, cancel, cfgStep, ops, scopeOpen, closeCount,
                   sessionVars, num_points, scaleVars, i, timer,
                   stack, rawBlock, waveform_bytes, capture, voltages, times, countVars>>

\* voltages, in ten-thousandths: (raw - y_zero + y_offset) * y_multiplier in the
\* plain scripts, (raw - y_reference) * y_increment + y_origin in acquire_ag.py.
Voltages(sc, codes) ==
    [k \in 1..Len(codes) |->
        IF sc = "acquire_ag"
        THEN (codes[k] * Unit - y_zero) * y_multiplier + y_offset * Unit
        ELSE (codes[k] * Unit - y_zero + y_offset) * y_multiplier]

\* times = np.arange(0, len(raw_waveform)) * x_increment + x_origin, in hundredths
Times(codes) == [k \in 1..Len(codes) |-> (k - 1) * x_increment + x_origin]

\* acquire_ag.py: if (i + 1) % PLOT_EVERY_N_FRAMES == 0: ... app.processEvents()
PumpsEvents == script = "acquire_ag" /\ (i + 1) % PLOT_EVERY_N_FRAMES = 0

\* Scaling, plot update and CSV write: the capture reaches the sinks.  The
\* plain loops then take the next index; update() pumps the event queue on
\* every PLOT_EVERY_N_FRAMES-th frame before it goes on.
Publish ==
    /\ pc = "publish"
    /\ voltages' = Voltages(script, raw_waveform)
    /\ times' = Times(raw_waveform)
    /\ capture' = raw_waveform
    /\ published' = published + 1
    /\ IF PumpsEvents
       THEN pc' = "process_events" /\ UNCHANGED <<i, stack>>
       ELSE EndIteration
    /\ UNCHANGED <<script, wfmpre, cancel, cfgStep, ops, scopeOpen, closeCount,
                   sessionVars, num_points, scaleVars, timer,
                   rawBlock, waveform_bytes, raw_waveform, attempted, failures,
                   firstFail, firstError, lastError, aborted, triggers>>

\* app.processEvents() returns; the rest of the body runs, i += 1, return.
ProcessEvents ==
    /\ pc = "process_events"
    /\ EndIteration
    /\ UNCHANGED <<script, wfmpre, cancel, cfgStep, ops, scopeOpen, closeCount,
                   sessionVars, num_points, scaleVars, timer,
                   dataVars, countVars>>

\* The plain scripts' cleanup after the loop: scope.close().
Cleanup ==
    /\ pc = "cleanup"
    /\ closeCount' = closeCount + 1
    /\ scopeOpen' = FALSE
    /\ pc' = "done"
    /\ UNCHANGED <<script, wfmpre, cancel, cfgStep, ops, sessionVars, num_points,
                   scaleVars, i, timer, stack, dataVars, countVars>>

Next ==
    \/ Connect
    \/ ConnectFail
    \/ Configure
    \/ ConfigureFail
    \/ LoopHead
    \/ TimerFire
    \/ UpdateTop
    \/ Complete
    \/ CompleteFail
    \/ Trigger
    \/ AwaitComplete
    \/ DataQuery
    \/ ReadRaw
    \/ ReadRawFail
    \/ DecodeBlock
    \/ Reconcile
    \/ Publish
    \/ ProcessEvents
    \/ Cleanup

Spec == Init /\ [][Next]_vars

\* Every call on the session returns or raises, the interpreter runs the
\* next statement, and Qt's event loop delivers the timeout of an active
\* zero-interval timer: a step that can be taken is taken.
FairSpec == Spec /\ WF_vars(Next)

\* The environment asks the run to stop while the script is between two
\* iterations.  No script declares or reads such a signal: nothing in Next
\* depends on `cancel`.
RequestCancel ==
    /\ ~cancel
    /\ pc = "loop_head" \/ (pc = "event_loop" /\ timer)
    /\ cancel' = TRUE
    /\ UNCHANGED <<script, pc, cfgStep, scopeOpen, closeCount, wfmpre, num_points,
                   scaleVars, i, timer, stack, dataVars, countVars, ops, sessionVars>>

NextCancel == Next \/ RequestCancel

\* The runs in which a stop may be requested.
SpecCancel == Init /\ [][NextCancel]_vars

(***************************************************************************)
(* Observations of a run.                                                  *)
(***************************************************************************)
\* The acquisition loop is over: the plain script is past its cleanup, the
\* timer of acquire_ag.py is stopped and update() has returned, or update()
\* was left by an exception of its completion branch.
LoopEnded ==
    \/ pc = "done"
    \/ script = "acquire_ag" /\ pc = "event_loop" /\ ~timer
    \/ pc = "unhandled"

\* COMPLETE: every iteration was attempted; ABORTED: the loop's error path ended it.
RunState == IF aborted THEN "ABORTED" ELSE "COMPLETE"

\* Positions inside the body of an iteration.
BodyPcs == {"trigger", "opc", "data_query", "read", "decode", "reconcile", "publish",
            "process_events"}

\* A session failure that is no timeout.
RecoverableErrors == SessionErrors \ TimeoutErrors

(***************************************************************************)
(* C1: fault isolation.  When exactly one iteration failed, with a         *)
(* transport error that is no timeout, the ended run has attempted all     *)
(* NUM_CAPTURES iterations and published one capture fewer, in every       *)
(* script.                                                                 *)
(***************************************************************************)
C1_FaultIsolation ==
    (LoopEnded /\ failures = 1 /\ firstError \in RecoverableErrors)
        => (attempted = NUM_CAPTURES(script) /\ published = NUM_CAPTURES(script) - 1)

(***************************************************************************)
(* C2: abort on timeout.  Once an iteration k has failed with a timeout    *)
(* after k-1 successes, no later iteration is started, k-1 captures are    *)
(* published, and the ended run is ABORTED.                                *)
(***************************************************************************)
C2_AbortOnTimeout ==
    (firstError \in TimeoutErrors)
        => /\ attempted = firstFail
           /\ published = firstFail - 1
           /\ LoopEnded => RunState = "ABORTED"

(***************************************************************************)
(* C3: single close.  Once the loop has ended, close() has been called     *)
(* exactly once.                                                           *)
(***************************************************************************)
C3_SingleClose == LoopEnded => closeCount = 1

(***************************************************************************)
(* C4: a setup failure after the open ends the run with the session closed *)
(* and no trigger command written: when a configuration command or         *)
(* preamble query has raised and the script has exited, the session is not *)
(* open.                                                                   *)
(***************************************************************************)
C4_SetupFailureCloses ==
    (pc = "exited" /\ lastError \in SessionErrors) => (~scopeOpen /\ triggers = 0)

(***************************************************************************)
(* C5: strict sequencing.  update() is never entered while another         *)
(* update() is running, and when an iteration begins every earlier         *)
(* iteration has either published or failed.                               *)
(***************************************************************************)
C5_StrictSequencing ==
    /\ stack = << >>
    /\ (pc = "trigger") => (published + failures = attempted - 1)
    /\ (pc \in BodyPcs) => (attempted = i + 1)

\* The iteration after the one whose publish step pumped the event queue has begun.
C5_Witness ==
    script = "acquire_ag" /\ pc = "trigger" /\ attempted = PLOT_EVERY_N_FRAMES + 1

(***************************************************************************)
(* C6: hosting equivalence.  What the plain loop makes of a run with at    *)
(* most one failing iteration (iteration k, exception e): it stops at k    *)
(* when it breaks and attempts all iterations otherwise.  The claim: every *)
(* host ends such a run with these numbers and this terminal state.        *)
(***************************************************************************)
PlainOutcome(k, e) ==
    IF k = 0 THEN <<NUM_CAPTURES(script), NUM_CAPTURES(script), 0, "COMPLETE">>
    ELSE IF BreaksLoop(e) THEN <<k, k - 1, 1, "ABORTED">>
    ELSE <<NUM_CAPTURES(script), NUM_CAPTURES(script) - 1, 1, "COMPLETE">>

C6_HostingEquivalence ==
    (LoopEnded /\ pc # "unhandled" /\ failures <= 1)
        => <<attempted, published, failures, RunState>> = PlainOutcome(firstFail, firstError)

\* The plain loops themselves end as PlainOutcome says.
C6_PlainLoopOutcome ==
    (script \in PlainScripts) => C6_HostingEquivalence

(***************************************************************************)
(* C7: truncation policy.  A capture that reaches the sinks has exactly    *)
(* num_points samples (a shorter decode is a framing error, a longer one   *)
(* is cut).                                                                *)
(***************************************************************************)
C7_TruncationPolicy ==
    (pc = "publish" /\ num_points > 0) => Len(raw_waveform) = num_points

(***************************************************************************)
(* C8: the TEK payload span is set by the declared length.  For a read     *)
(* '#', d, d digits giving L, and at least L further bytes, the stripped   *)
(* bytes are those at [2+d, 2+d+L) whatever follows them.                  *)
(***************************************************************************)
RECURSIVE DecimalValue(_)
\* the number a sequence of ASCII digits spells
DecimalValue(ds) ==
    IF ds = << >> THEN 0
    ELSE 10 * DecimalValue(SubSeq(ds, 1, Len(ds) - 1)) + DigitValue(ds[Len(ds)])

DeclaredDigits(b) == SubSeq(b, 3, 2 + DigitValue(b[2]))
DeclaredLength(b) == DecimalValue(DeclaredDigits(b))

IsTekRead(b) ==
    /\ Len(b) >= 2
    /\ b[1] = HashByte
    /\ IsDigitByte(b[2])
    /\ DigitValue(b[2]) >= 1
    /\ Len(b) >= 2 + DigitValue(b[2])
    /\ \A k \in 3..(2 + DigitValue(b[2])) : IsDigitByte(b[k])
    /\ Len(b) >= 2 + DigitValue(b[2]) + DeclaredLength(b)

DeclaredSpan(b) ==
    SubSeq(b, 2 + DigitValue(b[2]) + 1, 2 + DigitValue(b[2]) + DeclaredLength(b))

C8_SpanByDeclaredLength ==
    (script = "acquire_pyvisa" /\ pc = "reconcile" /\ IsTekRead(rawBlock))
        => waveform_bytes = DeclaredSpan(rawBlock)

(***************************************************************************)
(* C9: TEK round trip.  A read built as marker, digit count, decimal       *)
(* length, payload and one terminator byte is stripped to the payload.     *)
(***************************************************************************)
C9_TekRoundTrip ==
    (script = "acquire_pyvisa" /\ pc = "reconcile")
        => /\ \A p \in Payloads : \A d \in 1..MaxDigits :
                (rawBlock = TekFrame(p, d, <<NewlineByte>>))
                    => (waveform_bytes = p /\ raw_waveform = FromBuffer(p))
           /\ (rawBlock = ScenarioFrame) => raw_waveform = <<1, 2, 3, 4>>

\* A framed payload that itself ends with the terminator byte was stripped.
C9_Witness ==
    /\ script = "acquire_pyvisa"
    /\ pc = "reconcile"
    /\ rawBlock = TekFrame(<<200, NewlineByte>>, MaxDigits, <<NewlineByte>>)
    /\ raw_waveform = <<-56, 10>>

(***************************************************************************)
(* C10: AGILENT round trip.  A read built as header, newline, payload is   *)
(* decoded to the payload.                                                 *)
(***************************************************************************)
C10_AgRoundTrip ==
    (script = "acquire_ag" /\ pc = "publish")
        => \A h \in AgHeaders : \A p \in Payloads :
                (rawBlock = AgFrame(h, p)) => raw_waveform = FromBuffer(p)

\* A payload that contains the newline byte was decoded behind a header.
C10_Witness ==
    /\ script = "acquire_ag"
    /\ pc = "publish"
    /\ rawBlock = AgFrame(<<HashByte, AsciiZero + 1, AsciiZero + 2>>, <<NewlineByte, 200>>)
    /\ raw_waveform = <<10, -56>>

(***************************************************************************)
(* C11: malformed frames are rejected.  A read that is shorter than its    *)
(* header or whose digit count / length field is no decimal number never   *)
(* reaches the sinks: the iteration fails instead.                         *)
(***************************************************************************)
\* A '#' read without a digit count, with a digit count or length digit
\* that is no digit, or with fewer length digits than announced; an empty read.
MalformedTek(b) ==
    \/ Len(b) = 0
    \/ /\ b[1] = HashByte
       /\ \/ Len(b) < 2
          \/ ~IsDigitByte(b[2])
          \/ Len(b) < 2 + DigitValue(b[2])
          \/ \E k \in 3..(2 + DigitValue(b[2])) : ~IsDigitByte(b[k])

\* A read with no newline at all.
MalformedAg(b) == \A k \in 1..Len(b) : b[k] # NewlineByte

Malformed(sc, b) ==
    CASE sc = "acquire_pyvisa" -> MalformedTek(b)
      [] sc = "acquire_ag" -> MalformedAg(b)
      [] OTHER -> FALSE

\* The iteration under way has handed its capture to the sinks.
JustPublished ==
    /\ attempted > 0
    /\ published + failures = attempted
    /\ lastError = "none"
    /\ pc \in {"loop_head", "event_loop", "process_events"}

C11_MalformedRejected ==
    JustPublished => ~Malformed(script, rawBlock)

(***************************************************************************)
(* C12: preamble validation.  While the loop of a script that queries the  *)
(* sample count is running, and once a trigger has been written, the       *)
(* sample count is positive.                                               *)
(***************************************************************************)
C12_SampleCountPositive ==
    (script \in PlainScripts /\ (pc \in BodyPcs \/ triggers > 0 \/ published > 0))
        => num_points > 0

(***************************************************************************)
(* C13: scaling.  The codes of a published capture are the sign-extended   *)
(* bytes; times and voltages have the length of the codes; time k is       *)
(* k * timeIncrement + timeOrigin; a voltage is                            *)
(* (code - codeZero + codeOffset) * voltageScale in the TEK scripts and    *)
(* (code - codeZero) * voltageScale + codeOffset in the AGILENT script,    *)
(* with the preamble values as the instrument reported them; scale 0.01    *)
(* with zero offsets turns the codes 10, -10, 0, 127 into 0.10, -0.10,     *)
(* 0.00, 1.27.                                                             *)
(***************************************************************************)
SignExtended(b) == IF b >= Int8Top THEN b - ByteRange ELSE b

ReportedVoltage(sc, code) ==
    IF sc = "acquire_ag"
    THEN (code * Unit - wfmpre.yzero) * wfmpre.yscale + wfmpre.yoff * Unit
    ELSE (code * Unit - wfmpre.yzero + wfmpre.yoff) * wfmpre.yscale

C13_Scaling ==
    JustPublished =>
        /\ Len(voltages) = Len(capture)
        /\ Len(times) = Len(capture)
        /\ script = "acquire" =>
              capture = [k \in 1..Len(rawBlock) |-> SignExtended(rawBlock[k])]
        /\ \A k \in 1..Len(capture) :
              /\ times[k] = (k - 1) * wfmpre.xinc + wfmpre.xorg
              /\ voltages[k] = ReportedVoltage(script, capture[k])
        /\ (capture = <<10, -10, 0, 127>> /\ wfmpre.yscale = 1
                /\ wfmpre.yoff = 0 /\ wfmpre.yzero = 0)
              => voltages = <<1000, -1000, 0, 12700>>

\* The same with the AGILENT script left out.
C13_TekScaling == (script \in PlainScripts) => C13_Scaling

(***************************************************************************)
(* C14: external cancellation.  Once the stop request is set between two   *)
(* iterations, no further iteration starts: no body is entered and no      *)
(* trigger is written from then on.                                        *)
(***************************************************************************)
C14_CancelStopsLoop ==
    [][cancel => (attempted' = attempted /\ triggers' = triggers)]_vars

(***************************************************************************)
(* C15: protocol order of an iteration in the TEK scripts.  The session    *)
(* operations of an iteration are a prefix of: trigger write, completion   *)
(* query, data query, one block read.  The data query is written only      *)
(* after the completion query of the same iteration was answered, a block  *)
(* is decoded only after all four, and an operation that fails is the last *)
(* one of its iteration.                                                   *)
(***************************************************************************)
TekProtocol == <<"ACQUIRE:STATE ON", "*OPC?", "CURVE?", "read_raw">>

IsPrefix(a, b) == Len(a) <= Len(b) /\ \A k \in 1..Len(a) : a[k] = b[k]

Terminal == LoopEnded \/ pc = "exited"

BetweenIterations == pc = "loop_head" \/ (script = "acquire_ag" /\ pc = "event_loop")

C16_CounterBound ==
    /\ i <= NUM_CAPTURES(script)
    /\ attempted <= NUM_CAPTURES(script)
    /\ BetweenIterations => i = attempted

C16_Termination == <>Terminal /\ []C16_CounterBound

\* A plain loop that ran to its end although an iteration had failed.
C16_Witness ==
    /\ pc = "done"
    /\ ~aborted
    /\ failures > 0
    /\ i = PlainCaptures
    /\ attempted = PlainCaptures

(***************************************************************************)
(* C17: the preamble is fetched once.  No trigger is written before        *)
(* configuration is over, and once it is over no preamble query is issued  *)
(* and the sample count and scaling values keep the values read then.      *)
(***************************************************************************)
Configuring == pc \in {"connect", "configure"}

C17_PreambleOnce ==
    /\ [](Configuring => triggers = 0)
    /\ [][~Configuring =>
            /\ preambleQueries' = preambleQueries
            /\ UNCHANGED <<num_points, scaleVars>>]_vars

\* A second capture published by acquire.py, scaled with the six values of
\* the six queries made at configuration.
C17_Witness ==
    /\ script = "acquire"
    /\ JustPublished
    /\ published = 2
    /\ preambleQueries = 6
    /\ y_zero = -150
    /\ Len(voltages) > 0

(***************************************************************************)
(* C18: no use after close.  No session operation (write, ask/query,       *)
(* read_raw) is issued once close() has been called; in acquire_ag.py the  *)
(* callback is not run again after the session was closed, and the         *)
(* completion branch runs at most once.                                    *)
(***************************************************************************)
C18_NoUseAfterClose ==
    /\ ~usedAfterClose
    /\ runWrites <= 1
    /\ closeCount > 0 =>
          /\ pc \in {"done", "exited", "event_loop"}
          /\ ~timer
          /\ stack = << >>

\* acquire_ag.py closed the session on an error after two good captures, and
\* the event loop is idle.
C18_Witness ==
    /\ script = "acquire_ag"
    /\ closeCount = 1
    /\ aborted
    /\ published = 2
    /\ firstFail = 3
    /\ pc = "event_loop"

(***************************************************************************)
(* C19: timeouts are classified by the message text.  In the plain-loop    *)
(* scripts a failed iteration ends the loop exactly when the text of its   *)
(* error contains 'Timeout'; any other failure, a timeout whose message    *)
(* lacks that word included, is followed by the next iteration.            *)
(***************************************************************************)
\* The except clause of a plain loop has just run.
PlainFailureHandled ==
    /\ script \in PlainScripts
    /\ pc \in {"loop_head", "cleanup"}
    /\ lastError # "none"

C19_TimeoutByText ==
    PlainFailureHandled =>
        /\ (pc = "cleanup") <=> Contains(Message(lastError), <<"T","i","m","e","o","u","t">>)
        /\ (pc = "cleanup") => (aborted /\ attempted = i + 1)
        /\ (pc = "loop_head") => (~aborted /\ i = attempted)
        /\ lastError = "VisaTimeout" => pc = "cleanup"
        /\ lastError \in {"TransportError", "UsbTimeout", "ValueError", "IndexError"}
              => pc = "loop_head"

\* A timeout whose message lacks the word was reported and the loop goes on.
C19_Witness ==
    /\ PlainFailureHandled
    /\ lastError = "UsbTimeout"
    /\ pc = "loop_head"
    /\ ~aborted
    /\ i < PlainCaptures

(***************************************************************************)
(* C20: the instrument is restored only on full success.  In acquire_ag.py *)
(* ':RUN' is written exactly once, immediately before close(), exactly     *)
(* when all NumCaptures iterations succeeded: write(':RUN') is called at   *)
(* most once and only after NumCaptures successes; a run that ended        *)
(* without a failed iteration has written ':RUN' and then closed the       *)
(* session; after a failed iteration the session is closed, ':RUN' is      *)
(* never written and the completion branch is not entered.                 *)
(***************************************************************************)
C20_RunOnlyOnFullSuccess ==
    (script = "acquire_ag") =>
        /\ runWrites <= 1
        /\ runWrites = 1 =>
              (failures = 0 /\ published = NumCaptures /\ i = NumCaptures /\ sent = ":RUN")
        /\ (LoopEnded /\ failures = 0) =>
              (runWrites = 1 /\ sent = ":RUN" /\ closeCount = 1 /\ ~scopeOpen)
        /\ failures > 0 =>
              /\ runWrites = 0
              /\ pc # "complete"
              /\ sent # ":RUN"
              /\ closeCount = 1
              /\ aborted

\* All captures succeeded; ':RUN' was written and the session closed.
C20_Witness ==
    /\ script = "acquire_ag"
    /\ LoopEnded
    /\ published = NumCaptures
    /\ runWrites = 1
    /\ closeCount = 1
    /\ sent = ":RUN"

====
